---- MODULE Spec2Model ----
(***************************************************************************)
(* The nonlinear time-stepping engine of FisherKolmogorov3D                *)
(* (3D_convergence/src/FisherKolmogorov3D.cpp) together with the parameter *)
(* declarations of ParameterReader.hpp, as a bulk-synchronous state        *)
(* machine: every MPI process runs solve() with its own program counter    *)
(* and its own locals; a collective operation (compress, l2_norm, the CG   *)
(* solve, the ghost refresh, output) is a joint step that needs every      *)
(* process to have arrived at it.                                          *)
(*                                                                         *)
(* Numbers.  Times (T, deltat, time) are integers in a common tick, so the *)
(* half-step guard  time < T - 0.5*deltat  is the exact  2*time <          *)
(* 2*T - deltat.  Nodal values are multiples of 2*Grid, so that the        *)
(* quotient (u - u_old)/deltat of the assembly is exact for every deltat   *)
(* in 1..MaxDt; for deltat = 0 the quotient is the IEEE one (NaN, +-Inf).  *)
(* Norms are kept squared (residual_norm holds ||r||^2, compared with      *)
(* newton_tolerance^2), which orders non-negative numbers as the norms do. *)
(*                                                                         *)
(* Mesh.  The tetrahedral mesh is a chain of P1 cells of length 2, cell c  *)
(* carrying DoFs c and c+1, with the midpoint quadrature rule.  The Krylov *)
(* solver is a library: its result is any increment that keeps the nodal   *)
(* values in the value range, or the failure it signals at K_max.  The     *)
(* entries of the Jacobian, which only that solver reads, are not kept;    *)
(* its compress is.                                                        *)
(***************************************************************************)
EXTENDS Integers, Sequences, FiniteSets, TLC

\* ------------------------------------------------------------ bounds
MaxT == 2
MaxDt == 3
MaxNewton == 2

\* The time loop runs at most MaxT steps when deltat >= 1; the cap only
\* binds for deltat = 0, where the loop of the code never ends.
MaxSteps == MaxT + 1

\* Two processes and a chain of two cells: cell c carries DoFs c and c+1.
Procs == {1, 2}
Cells == {1, 2}
DoFs == {1, 2, 3}

RECURSIVE Gcd(_, _)
Gcd(a, b) == IF b = 0 THEN a ELSE Gcd(b, a % b)

RECURSIVE LcmUpTo(_)
LcmUpTo(n) == IF n <= 1 THEN 1 ELSE (LcmUpTo(n - 1) * n) \div Gcd(LcmUpTo(n - 1), n)

Grid == LcmUpTo(MaxDt)
\* Nodal values: twice a multiple of Grid, so that the midpoint value
\* (u_c + u_{c+1})/2 and the gradient (u_{c+1} - u_c)/2 are integers too.
Unit == 2 * Grid
Values == {0, Unit}

\* ------------------------------------------------- IEEE double values
\* A double is a finite number, NaN or a signed infinity.
Num(n) == [k |-> "num", v |-> n]
NaN == [k |-> "nan", v |-> 0]
PInf == [k |-> "inf", v |-> 1]
NInf == [k |-> "inf", v |-> -1]

IsNum(x) == x.k = "num"

\* a / b for integers a, b; a is a multiple of b whenever b # 0.
FDiv(a, b) ==
  IF b # 0 THEN Num(a \div b)
  ELSE IF a = 0 THEN NaN ELSE IF a > 0 THEN PInf ELSE NInf

FNeg(x) == [k |-> x.k, v |-> 0 - x.v]

FAdd(x, y) ==
  IF IsNum(x) /\ IsNum(y) THEN Num(x.v + y.v)
  ELSE IF x = NaN \/ y = NaN THEN NaN
  ELSE IF IsNum(x) THEN y
  ELSE IF IsNum(y) THEN x
  ELSE IF x = y THEN x ELSE NaN

\* x * x
FSquare(x) == IF IsNum(x) THEN Num(x.v * x.v) ELSE IF x = NaN THEN NaN ELSE PInf

\* x > y, false whenever an operand is NaN
FGt(x, y) ==
  IF IsNum(x) /\ IsNum(y) THEN x.v > y.v
  ELSE IF x = NaN \/ y = NaN THEN FALSE
  ELSE IF IsNum(x) THEN y = NInf
  ELSE IF IsNum(y) THEN x = PInf
  ELSE x = PInf /\ y = NInf

RECURSIVE FSum(_, _)
FSum(f, S) ==
  IF S = {} THEN Num(0)
  ELSE LET x == CHOOSE y \in S : TRUE IN FAdd(f[x], FSum(f, S \ {x}))

\* ------------------------------------------------------------- state
VARIABLES
  T, deltat,                 \* "Time stepping parameters"
  max_newton_iterations, newton_tolerance, max_cg_iterations,
  subdomain,                 \* cell -> owning process (partition_triangulation)
  u_0,                       \* nodal values of the initial condition
  pc,                        \* per process: where it is in main/solve()
  time, time_step,           \* per process
  n_iter, residual_norm,     \* per process: locals of solve_newton (norm squared)
  solution_owned,            \* DoF -> value, each entry stored on its owner
  solution, solution_old,    \* per process: ghosted views over locally_relevant_dofs
  delta_owned,               \* DoF -> value
  residual_local,            \* per process: residual_vector entries added, not yet compressed
  residual_vector,           \* DoF -> double, after compress(add)
  last_check,                \* the state SolverControl ended the last solve in
  newton_calls,              \* per process: number of solve_newton() invocations
  output_steps,              \* per process: the time_step of every output() call, in order
  output_u                   \* per process: the solution written by the last output()

params == <<T, deltat, max_newton_iterations, newton_tolerance, max_cg_iterations,
            subdomain, u_0>>
locals == <<time, time_step, n_iter, residual_norm, newton_calls>>
vectors == <<solution_owned, solution, solution_old, delta_owned>>
system == <<residual_local, residual_vector, last_check>>
outputs == <<output_steps, output_u>>
vars == <<params, pc, locals, vectors, system, outputs>>

\* ------------------------------------------------- discretization context
CellDoFs(c) == {c, c + 1}

\* cell->get_dof_indices: local index i in {1, 2} -> global DoF
dof_indices(c, i) == c + i - 1

OwnedCells(p) == {c \in Cells : subdomain[c] = p}

\* Ghost cells: cells of another process sharing a DoF with an owned cell.
GhostCells(p) ==
  {c \in Cells \ OwnedCells(p) :
     \E o \in OwnedCells(p) : CellDoFs(c) \cap CellDoFs(o) # {}}

\* A DoF on a subdomain interface belongs to the lowest subdomain id.
DoFOwner(dof) ==
  CHOOSE p \in Procs :
    /\ \E c \in Cells : dof \in CellDoFs(c) /\ subdomain[c] = p
    /\ \A c \in Cells : dof \in CellDoFs(c) => subdomain[c] >= p

locally_owned_dofs(p) == {dof \in DoFs : DoFOwner(dof) = p}

locally_relevant_dofs(p) ==
  UNION {CellDoFs(c) : c \in OwnedCells(p) \cup GhostCells(p)}

ZeroOn(S) == [dof \in S |-> 0]

\* ----------------------------------------------------------- assembler
\* Coefficients at the quadrature node: reaction rate, diffusion, forcing.
alpha == 1
d_loc == 1
f_loc == 0

\* shape_grad(i, q) * JxW(q): the P1 gradients are -1/2 and +1/2, JxW is 2.
ShapeGradJxW(i) == IF i = 1 THEN -1 ELSE 1

\* Entry i of cell_residual for cell c, from the ghosted vectors sol and
\* old of the assembling process (shape_value(i, q) * JxW(q) = 1).
CellResidual(sol, old, c, i) ==
  LET solution_loc == (sol[c] + sol[c + 1]) \div 2
      solution_old_loc == (old[c] + old[c + 1]) \div 2
      solution_gradient_loc == (sol[c + 1] - sol[c]) \div 2
      time_term == FNeg(FDiv(solution_loc - solution_old_loc, deltat))
      diffusion == 0 - d_loc * ShapeGradJxW(i) * solution_gradient_loc
      reaction == alpha * solution_loc * (1 - solution_loc)
  IN  FAdd(time_term, Num(diffusion + reaction + f_loc))

\* What process p adds into residual_vector in its cell loop: zero, then
\* residual_vector.add(dof_indices, cell_residual) for each owned cell.
AssembleLocal(p, sol, old) ==
  [dof \in DoFs |->
     LET hits == {ci \in OwnedCells(p) \X {1, 2} : dof_indices(ci[1], ci[2]) = dof}
         term == [ci \in hits |-> CellResidual(sol, old, ci[1], ci[2])]
     IN  FSum(term, hits)]

\* residual_vector.compress(VectorOperation::add)
CompressAdd(loc) ==
  [dof \in DoFs |-> FSum([p \in Procs |-> loc[p][dof]], Procs)]

\* The square of vec.l2_norm(): the reduction over all processes' entries.
L2NormSq(vec) == FSum([dof \in DoFs |-> FSquare(vec[dof])], DoFs)

\* Variant: only the locally owned entries are copied, ghosts keep their value.
GhostRefreshOwnedOnly(p, owned, ghosted) ==
  [dof \in locally_relevant_dofs(p) |->
     IF DoFOwner(dof) = p THEN owned[dof] ELSE ghosted[dof]]

\* The ghosted image of the owned vector on process p (solution = solution_owned).
GhostRefresh(p, owned, ghosted) ==
  [dof \in locally_relevant_dofs(p) |-> owned[dof]]

\* ----------------------------------------------------------------- Init
\* Entries of the parameter file, one of them possibly outside its range.
FileT == 0..MaxT
FileDeltat == -1..MaxDt
FileMaxNewton == 0..MaxNewton
\* Tolerance 0 accepts only an exactly vanishing residual; tolerance Grid
\* also accepts the small residuals left after a good Newton update.
FileTolerance == {0, Grid}
\* The CG cap only acts inside the library's iteration: one value in range,
\* one below it.
FileMaxCG == {0, 1}

Partitions == {[c \in Cells |-> 1], [c \in Cells |-> c]}
InitialConditions == {[dof \in DoFs |-> 0], [dof \in DoFs |-> IF dof = 1 THEN Unit ELSE 0]}

Init ==
  /\ T \in FileT
  /\ deltat \in FileDeltat
  /\ max_newton_iterations \in FileMaxNewton
  /\ newton_tolerance \in FileTolerance
  /\ max_cg_iterations \in FileMaxCG
  /\ subdomain \in Partitions
  /\ u_0 \in InitialConditions
  /\ pc = [p \in Procs |-> "read_parameters"]
  /\ time = [p \in Procs |-> 0]
  /\ time_step = [p \in Procs |-> 0]
  /\ n_iter = [p \in Procs |-> 0]
  /\ residual_norm = [p \in Procs |-> Num(0)]
  /\ newton_calls = [p \in Procs |-> 0]
  /\ solution_owned = ZeroOn(DoFs)
  /\ delta_owned = ZeroOn(DoFs)
  /\ solution = [p \in Procs |-> <<>>]
  /\ solution_old = [p \in Procs |-> <<>>]
  /\ residual_local = [p \in Procs |-> [dof \in DoFs |-> Num(0)]]
  /\ residual_vector = [dof \in DoFs |-> Num(0)]
  /\ last_check = "none"
  /\ output_steps = [p \in Procs |-> <<>>]
  /\ output_u = [p \in Procs |-> <<>>]

\* ------------------------------------------------------ ParameterReader
\* Patterns::Double(lower) and Patterns::Integer(lower): lower <= x.
PatternDouble(lower, x) == lower <= x
PatternInteger(lower, x) == lower <= x

\* declare_parameters: the pattern of every entry the engine reads.
MatchT == PatternDouble(0, T)
MatchDeltat == PatternDouble(0, deltat)
MatchMaxNewton == PatternInteger(1, max_newton_iterations)
MatchTolerance == PatternDouble(0, newton_tolerance)
MatchMaxCG == PatternInteger(1, max_cg_iterations)

ParametersValid ==
  MatchT /\ MatchDeltat /\ MatchMaxNewton /\ MatchTolerance /\ MatchMaxCG

\* read_parameters: parse_input throws on an entry that fails its pattern.
read_parameters(p) ==
  /\ pc[p] = "read_parameters"
  /\ pc' = [pc EXCEPT ![p] = IF ParametersValid THEN "setup" ELSE "config_invalid"]
  /\ UNCHANGED <<params, locals, vectors, system, outputs>>

\* ------------------------------------------------------------- setup()
setup(p) ==
  /\ pc[p] = "setup"
  /\ solution_owned' =
       [dof \in DoFs |-> IF DoFOwner(dof) = p THEN 0 ELSE solution_owned[dof]]
  /\ delta_owned' =
       [dof \in DoFs |-> IF DoFOwner(dof) = p THEN 0 ELSE delta_owned[dof]]
  /\ solution' = [solution EXCEPT ![p] = ZeroOn(locally_relevant_dofs(p))]
  /\ solution_old' = [solution_old EXCEPT ![p] = ZeroOn(locally_relevant_dofs(p))]
  /\ residual_local' = [residual_local EXCEPT ![p] = [dof \in DoFs |-> Num(0)]]
  /\ pc' = [pc EXCEPT ![p] = "solve"]
  /\ UNCHANGED <<params, locals, residual_vector, last_check, outputs>>

\* ------------------------------------------------- collective operations
AllAt(label) == \A p \in Procs : pc[p] = label
GoAll(label) == pc' = [p \in Procs |-> label]

\* ------------------------------------------------------------- solve()
\* time = 0.0; VectorTools::interpolate(dof_handler, u_0, solution_owned)
solve_begin(p) ==
  /\ pc[p] = "solve"
  /\ time' = [time EXCEPT ![p] = 0]
  /\ solution_owned' =
       [dof \in DoFs |-> IF DoFOwner(dof) = p THEN u_0[dof] ELSE solution_owned[dof]]
  /\ pc' = [pc EXCEPT ![p] = "initial_refresh"]
  /\ UNCHANGED <<params, time_step, n_iter, residual_norm, newton_calls,
                 solution, solution_old, delta_owned, system, outputs>>

\* solution = solution_owned
initial_refresh ==
  /\ AllAt("initial_refresh")
  /\ solution' = [p \in Procs |-> GhostRefresh(p, solution_owned, solution[p])]
  /\ GoAll("initial_output")
  /\ UNCHANGED <<params, locals, solution_owned, solution_old, delta_owned,
                 system, outputs>>

\* output(0); unsigned int time_step = 0
initial_output ==
  /\ AllAt("initial_output")
  /\ output_steps' = [p \in Procs |-> Append(output_steps[p], 0)]
  /\ output_u' = solution
  /\ time_step' = [p \in Procs |-> 0]
  /\ GoAll("time_loop")
  /\ UNCHANGED <<params, time, n_iter, residual_norm, newton_calls, vectors, system>>

\* Variant: the half step added instead of subtracted.
TimeLoopConditionPlusHalf(p) == 2 * time[p] < 2 * T + deltat

\* Variant: the loop runs while time <= T.
TimeLoopConditionInclusive(p) == time[p] <= T

\* time < T - 0.5 * deltat
TimeLoopCondition(p) == 2 * time[p] < 2 * T - deltat

\* Variant: the snapshot is left out.
SnapshotMissing(p) == solution_old[p]

\* solution_old = solution
Snapshot(p) == solution[p]

\* One pass through the head of the time loop: leave it, or advance the
\* time, snapshot the old solution and enter solve_newton().
time_loop(p) ==
  /\ pc[p] = "time_loop"
  /\ IF TimeLoopCondition(p)
     THEN /\ time_step[p] < MaxSteps
          /\ time' = [time EXCEPT ![p] = @ + deltat]
          /\ time_step' = [time_step EXCEPT ![p] = @ + 1]
          /\ solution_old' = [solution_old EXCEPT ![p] = Snapshot(p)]
          /\ newton_calls' = [newton_calls EXCEPT ![p] = @ + 1]
          /\ n_iter' = [n_iter EXCEPT ![p] = 0]
          /\ residual_norm' =
               [residual_norm EXCEPT ![p] = Num((newton_tolerance + 1) * (newton_tolerance + 1))]
          /\ pc' = [pc EXCEPT ![p] = "newton_loop"]
     ELSE /\ pc' = [pc EXCEPT ![p] = "done"]
          /\ UNCHANGED <<locals, solution_old>>
  /\ UNCHANGED <<params, solution_owned, solution, delta_owned, system, outputs>>

\* -------------------------------------------------------- solve_newton()
\* Variant: the comparison written with >= instead of >.
AboveToleranceGE(p) ==
  LET tol == Num(newton_tolerance * newton_tolerance)
  IN  FGt(residual_norm[p], tol) \/ residual_norm[p] = tol

\* residual_norm > newton_tolerance
AboveTolerance(p) ==
  FGt(residual_norm[p], Num(newton_tolerance * newton_tolerance))

\* Variant: the iteration cap tested with <= instead of <.
NewtonLoopConditionLE(p) ==
  n_iter[p] <= max_newton_iterations /\ AboveTolerance(p)

\* n_iter < max_newton_iterations && residual_norm > newton_tolerance
NewtonLoopCondition(p) ==
  n_iter[p] < max_newton_iterations /\ AboveTolerance(p)

\* Variant: a process that owns no cell leaves assemble_system() early.
AfterCellLoopSkipEmpty(p) ==
  IF OwnedCells(p) = {} THEN "l2_norm" ELSE "compress_jacobian"

\* Where a process stands after the cell loop of assemble_system().
AfterCellLoop(p) == "compress_jacobian"

\* The head of the Newton loop: return to solve(), or run the cell loop of
\* assemble_system() up to its first compress.
newton_loop(p) ==
  /\ pc[p] = "newton_loop"
  /\ IF NewtonLoopCondition(p)
     THEN /\ residual_local' =
               [residual_local EXCEPT ![p] = AssembleLocal(p, solution[p], solution_old[p])]
          /\ pc' = [pc EXCEPT ![p] = AfterCellLoop(p)]
     ELSE /\ pc' = [pc EXCEPT ![p] = "output"]
          /\ UNCHANGED residual_local
  /\ UNCHANGED <<params, locals, vectors, residual_vector, last_check, outputs>>

\* jacobian_matrix.compress(VectorOperation::add)
compress_jacobian ==
  /\ AllAt("compress_jacobian")
  /\ GoAll("compress_residual")
  /\ UNCHANGED <<params, locals, vectors, system, outputs>>

\* residual_vector.compress(VectorOperation::add)
compress_residual ==
  /\ AllAt("compress_residual")
  /\ residual_vector' = CompressAdd(residual_local)
  /\ GoAll("l2_norm")
  /\ UNCHANGED <<params, locals, vectors, residual_local, last_check, outputs>>

\* The value residual_vector.l2_norm() returns on process p (squared).
ReducedNorm(p) == L2NormSq(residual_vector)

\* residual_norm = residual_vector.l2_norm()
l2_norm ==
  /\ AllAt("l2_norm")
  /\ residual_norm' = [p \in Procs |-> ReducedNorm(p)]
  /\ GoAll("newton_check")
  /\ UNCHANGED <<params, time, time_step, n_iter, newton_calls, vectors, system, outputs>>

\* if (residual_norm > newton_tolerance) ... else ...; ++n_iter
newton_check(p) ==
  /\ pc[p] = "newton_check"
  /\ IF AboveTolerance(p)
     THEN /\ pc' = [pc EXCEPT ![p] = "solve_linear_system"]
          /\ UNCHANGED n_iter
     ELSE /\ n_iter' = [n_iter EXCEPT ![p] = @ + 1]
          /\ pc' = [pc EXCEPT ![p] = "newton_loop"]
  /\ UNCHANGED <<params, time, time_step, residual_norm, newton_calls, vectors,
                 system, outputs>>

\* The increments the Krylov solver may leave in delta_owned.
Increments ==
  {delta \in [DoFs -> {0 - Unit, 0, Unit}] :
     \A dof \in DoFs : solution_owned[dof] + delta[dof] \in Values}

\* Variant: the failure is caught and the Newton iteration goes on.
AfterNoConvergenceCaught == "newton_update"

\* Where the processes stand after SolverCG::solve signals NoConvergence:
\* nothing in solve_linear_system, solve_newton or solve catches it.
AfterNoConvergence == "aborted"

\* solve_linear_system(): SolverControl ends the iteration with success at
\* some step k <= max_cg_iterations (the count that is printed), or with
\* failure at step max_cg_iterations.
solve_linear_system ==
  /\ AllAt("solve_linear_system")
  /\ \E delta \in Increments, k \in 0..max_cg_iterations :
       /\ delta_owned' = delta
       /\ \/ /\ last_check' = "success"
             /\ GoAll("newton_update")
          \/ /\ k = max_cg_iterations
             /\ last_check' = "failure"
             /\ GoAll(AfterNoConvergence)
  /\ UNCHANGED <<params, locals, solution_owned, solution, solution_old,
                 residual_local, residual_vector, outputs>>

\* solution_owned += delta_owned
newton_update(p) ==
  /\ pc[p] = "newton_update"
  /\ solution_owned' =
       [dof \in DoFs |-> IF DoFOwner(dof) = p
                         THEN solution_owned[dof] + delta_owned[dof]
                         ELSE solution_owned[dof]]
  /\ pc' = [pc EXCEPT ![p] = "ghost_refresh"]
  /\ UNCHANGED <<params, locals, solution, solution_old, delta_owned, system, outputs>>

\* solution = solution_owned
ghost_refresh ==
  /\ AllAt("ghost_refresh")
  /\ solution' = [p \in Procs |-> GhostRefresh(p, solution_owned, solution[p])]
  /\ GoAll("newton_next")
  /\ UNCHANGED <<params, locals, solution_owned, solution_old, delta_owned,
                 system, outputs>>

\* ++n_iter after the update
newton_next(p) ==
  /\ pc[p] = "newton_next"
  /\ n_iter' = [n_iter EXCEPT ![p] = @ + 1]
  /\ pc' = [pc EXCEPT ![p] = "newton_loop"]
  /\ UNCHANGED <<params, time, time_step, residual_norm, newton_calls, vectors,
                 system, outputs>>

\* Variant: the index of the step before.
OutputIndexPrevious(p) == time_step[p] - 1

\* The index solve() passes to output() inside the time loop.
OutputIndex(p) == time_step[p]

\* output(time_step)
output ==
  /\ AllAt("output")
  /\ output_steps' = [p \in Procs |-> Append(output_steps[p], OutputIndex(p))]
  /\ output_u' = solution
  /\ GoAll("time_loop")
  /\ UNCHANGED <<params, locals, vectors, system>>

\* ------------------------------------------------------- specification
Next ==
  \/ \E p \in Procs : read_parameters(p)
  \/ \E p \in Procs : setup(p)
  \/ \E p \in Procs : solve_begin(p)
  \/ initial_refresh
  \/ initial_output
  \/ \E p \in Procs : time_loop(p)
  \/ \E p \in Procs : newton_loop(p)
  \/ compress_jacobian
  \/ compress_residual
  \/ l2_norm
  \/ \E p \in Procs : newton_check(p)
  \/ solve_linear_system
  \/ \E p \in Procs : newton_update(p)
  \/ ghost_refresh
  \/ \E p \in Procs : newton_next(p)
  \/ output

Spec == Init /\ [][Next]_vars

\* Every process keeps running and every collective completes once all
\* processes have arrived: the program has no other way to pause.
FairSpec == Spec /\ WF_vars(Next)

\* ================================================================ claims
Collectives ==
  {"initial_refresh", "initial_output", "compress_jacobian", "compress_residual",
   "l2_norm", "solve_linear_system", "ghost_refresh", "output"}

\* Inside solve_newton(), between its entry and its return.
InNewton ==
  {"newton_loop", "compress_jacobian", "compress_residual", "l2_norm",
   "newton_check", "solve_linear_system", "newton_update", "ghost_refresh",
   "newton_next"}

BeforeSolve == {"read_parameters", "config_invalid", "setup", "solve"}

ToleranceSq == Num(newton_tolerance * newton_tolerance)

\* The residual (squared norm) the current iterate of all processes assembles to.
CurrentResidualNormSq ==
  L2NormSq(CompressAdd([q \in Procs |-> AssembleLocal(q, solution[q], solution_old[q])]))

\* ---------------------------------------------------------------- C1
\* C1: the norm solve_newton compares with the tolerance is the norm of the
\* residual assembled in that iteration from the current solution; and once
\* that norm is not above the tolerance, the iteration solves nothing and
\* updates nothing: the process goes straight to the return of solve_newton
\* with solution_owned and solution untouched.
C1_TestedOnJustAssembled ==
  \A p \in Procs : pc[p] = "newton_check" => residual_norm[p] = CurrentResidualNormSq

C1_ConvergedAt(p) ==
  /\ pc[p] \in {"newton_check", "newton_loop"}
  /\ ~FGt(residual_norm[p], ToleranceSq)

C1_NoSolveNoUpdate ==
  \A p \in Procs :
    C1_ConvergedAt(p) =>
      /\ solution_owned' = solution_owned
      /\ solution' = solution
      /\ pc'[p] \in {"newton_check", "newton_loop", "output"}

\* C1: convergence is tested on the residual just assembled, and a converged
\* test is followed by no solve and no update before solve_newton returns.
C1_ConvergenceBeforeSolve ==
  [](C1_TestedOnJustAssembled) /\ [][C1_NoSolveNoUpdate]_vars

\* Reached: a converged test after at least one Newton update of this step.
C1_Witness ==
  \E p \in Procs :
    /\ pc[p] = "newton_check"
    /\ n_iter[p] >= 1
    /\ ~FGt(residual_norm[p], ToleranceSq)
    /\ IsNum(residual_norm[p])

\* ---------------------------------------------------------------- C2
\* C2: solve_newton never runs more than N_max iterations; when it returns
\* with the residual norm still above the tolerance it has run exactly N_max
\* of them, and solve() goes on as after a converged step: the output of that
\* timestep is emitted and the time loop is back at its head.
C2_NonConverged(p) == FGt(residual_norm[p], ToleranceSq)

C2_CapThenContinue ==
  \A p \in Procs :
    /\ pc[p] \notin {"read_parameters", "config_invalid"} =>
         n_iter[p] <= max_newton_iterations
    /\ (pc[p] \in {"output", "time_loop", "done"} /\ time_step[p] >= 1 /\ C2_NonConverged(p)) =>
         n_iter[p] = max_newton_iterations
    /\ (pc[p] \in {"time_loop", "done"} /\ time_step[p] >= 1 /\ C2_NonConverged(p)) =>
         /\ Len(output_steps[p]) = time_step[p] + 1
         /\ output_steps[p][time_step[p] + 1] = time_step[p]
         /\ output_u[p] = solution[p]

\* Reached: back at the head of the time loop after a non-converged step,
\* with another timestep still to run.
C2_Witness ==
  \E p \in Procs :
    /\ pc[p] = "time_loop"
    /\ time_step[p] >= 1
    /\ C2_NonConverged(p)
    /\ max_newton_iterations >= 2
    /\ TimeLoopCondition(p)

\* ---------------------------------------------------------------- C3
\* C3: for T >= 0 and deltat > 0 the time loop terminates, and when solve()
\* returns the simulation time t satisfies T - deltat/2 <= t <= T + deltat/2.
\* Along the way the time is the step count times deltat and never passes
\* T + deltat/2, which bounds the number of steps.
Finished == \A p \in Procs : pc[p] \in {"done", "aborted", "config_invalid"}

C3_TimeWithinHalfStep ==
  \A p \in Procs :
    (deltat > 0 /\ pc[p] \notin BeforeSolve) =>
      /\ time[p] = deltat * time_step[p]
      /\ 2 * time[p] <= 2 * T + deltat
      /\ pc[p] = "done" => 2 * T - deltat <= 2 * time[p]

\* C3: for deltat > 0 the time stays within half a step of T, solve() returns
\* with T - deltat/2 <= t <= T + deltat/2, and every run of a valid
\* configuration ends.
C3_TimeLoopTerminates ==
  [](C3_TimeWithinHalfStep) /\ ((ParametersValid /\ deltat > 0) => <>Finished)

\* Reached: solve() has returned after a last step that overshoots T.
C3_Witness ==
  \E p \in Procs :
    /\ pc[p] = "done"
    /\ deltat > 0
    /\ time_step[p] >= 1
    /\ time[p] > T
    /\ 2 * time[p] < 2 * T + deltat

\* ---------------------------------------------------------------- C4
\* C4: wherever the ghosted vector solution is about to be read (the cell
\* loop of assemble_system, the snapshot into solution_old, output), every
\* locally relevant entry of solution equals the owner's entry of
\* solution_owned: no write to solution_owned is still waiting for its refresh.
C4_ReadPoints == {"initial_output", "time_loop", "newton_loop", "output"}

C4_GhostsCurrentAtReads ==
  \A p \in Procs :
    pc[p] \in C4_ReadPoints =>
      /\ DOMAIN solution[p] = locally_relevant_dofs(p)
      /\ \A dof \in locally_relevant_dofs(p) : solution[p][dof] = solution_owned[dof]

\* Reached: a process about to assemble reads a ghost entry that a Newton
\* update of another process changed in this timestep.
C4_Witness ==
  \E p \in Procs : \E dof \in locally_relevant_dofs(p) :
    /\ pc[p] = "newton_loop"
    /\ n_iter[p] >= 1
    /\ DoFOwner(dof) # p
    /\ solution[p][dof] # solution_old[p][dof]

\* ---------------------------------------------------------------- C5
\* C5: the processes never disagree on the collective they are in: a process
\* waiting at a collective is never faced with a process waiting at another
\* collective or with one that has left solve(), also when it owns no cell.
C5_Left == {"done", "aborted", "config_invalid"}

C5_SameCollectives ==
  \A p, q \in Procs :
    pc[p] \in Collectives =>
      /\ pc[q] \notin C5_Left
      /\ pc[q] \in Collectives => pc[q] = pc[p]

\* Reached: a process that owns no cell waits at the matrix compress of a
\* second Newton iteration together with the process that owns them all.
C5_Witness ==
  \E p \in Procs :
    /\ OwnedCells(p) = {}
    /\ AllAt("compress_jacobian")
    /\ n_iter[p] >= 1

\* ---------------------------------------------------------------- C6
\* C6: a parameter file whose deltat is not positive is rejected by
\* read_parameters, so no timestep is ever run with deltat <= 0.
C6_NonPositiveDeltatRejected ==
  \A p \in Procs : time_step[p] >= 1 => deltat > 0

\* ---------------------------------------------------------------- C7
\* C7: the outputs emitted so far are the steps 0, 1, ..., in order and
\* without gaps: none before the initial condition is interpolated and
\* refreshed, step 0 (holding that initial condition) before the first
\* solve_newton, and step k once solve_newton of step k has returned and
\* before step k+1 begins.
C7_OutputSequence ==
  \A p \in Procs :
    LET n == Len(output_steps[p]) IN
      /\ \A i \in 1..n : output_steps[p][i] = i - 1
      /\ newton_calls[p] = time_step[p]
      /\ pc[p] \in BeforeSolve \cup {"initial_refresh", "initial_output"} =>
           n = 0 /\ newton_calls[p] = 0
      /\ pc[p] \in InNewton \cup {"output", "aborted"} => n = time_step[p] /\ n >= 1
      /\ pc[p] \in {"time_loop", "done"} => n = time_step[p] + 1
      /\ (pc[p] = "time_loop" /\ time_step[p] = 0) =>
           output_u[p] = [dof \in locally_relevant_dofs(p) |-> u_0[dof]]

\* Reached: solve() has returned after two timesteps and three outputs.
C7_Witness ==
  \E p \in Procs : pc[p] = "done" /\ output_steps[p] = <<0, 1, 2>>

\* ---------------------------------------------------------------- C8
\* C8: solution_old changes only in the snapshot at the head of a timestep
\* (and in setup); all through the Newton iteration of a timestep it equals
\* the solution as it stood, and was written out, at the end of the step
\* before (the interpolated initial condition in the first step).
C8_OldIsPreviousStep ==
  \A p \in Procs : pc[p] \in InNewton \cup {"output"} => solution_old[p] = output_u[p]

C8_WrittenBySnapshotOnly ==
  \A p \in Procs :
    solution_old'[p] # solution_old[p] => pc[p] \in {"setup", "time_loop"}

\* C8: solution_old is written by the snapshot only and holds the previous
\* step's solution all through the Newton iteration.
C8_SolutionOldFrozen ==
  [](C8_OldIsPreviousStep) /\ [][C8_WrittenBySnapshotOnly]_vars

\* Reached: in a second timestep, after a Newton update, the current solution
\* differs from solution_old, which differs from the initial condition.
C8_Witness ==
  \E p \in Procs : \E dof \in locally_relevant_dofs(p) :
    /\ pc[p] = "newton_next"
    /\ time_step[p] >= 2
    /\ solution[p][dof] # solution_old[p][dof]
    /\ solution_old[p] # [d \in locally_relevant_dofs(p) |-> u_0[d]]

\* ---------------------------------------------------------------- C9
\* C9: when the CG solve ends in failure the exception leaves
\* solve_linear_system, solve_newton and solve() on every process: the
\* update of that iteration is not applied, and nothing runs afterwards (no
\* Newton iteration, no output, no timestep).
C9_FailureIsFatal ==
  last_check = "failure" => \A p \in Procs : pc[p] = "aborted"

C9_NoUpdateOnFailure ==
  (last_check' = "failure" \/ last_check = "failure") =>
    UNCHANGED <<solution_owned, solution, solution_old, locals, outputs>>

\* C9: a failed CG solve ends solve() on every process, with the update of
\* that iteration not applied and nothing run afterwards.
C9_CGFailurePropagates ==
  [](C9_FailureIsFatal) /\ [][C9_NoUpdateOnFailure]_vars

\* Reached: the solve of a second Newton iteration fails, leaving an
\* increment in delta_owned that is never added.
C9_Witness ==
  /\ last_check = "failure"
  /\ \A p \in Procs : pc[p] = "aborted" /\ n_iter[p] >= 1
  /\ \E dof \in DoFs : delta_owned[dof] # 0

\* --------------------------------------------------------------- C10
\* C10: when T is k times deltat for an integer k >= 1, a solve() that
\* returns has run exactly k timesteps and called solve_newton once in each.
C10_ExactStepCount ==
  \A p \in Procs :
    (pc[p] = "done" /\ deltat > 0 /\ T > 0 /\ T % deltat = 0) =>
      /\ time_step[p] = T \div deltat
      /\ newton_calls[p] = T \div deltat
      /\ time[p] = T

\* Reached: solve() has returned for T = 2 deltat, after two timesteps.
C10_Witness ==
  \E p \in Procs :
    /\ pc[p] = "done"
    /\ deltat > 0
    /\ T = 2 * deltat
    /\ time_step[p] = 2

====
